---- MODULE Spec2Model ----
(***************************************************************************)
(* AudioInput (ALSA, PulseAudio and AudioStream variants): the lifecycle   *)
(* calls open/close/start/stop issued by the owning thread, interleaved    *)
(* with the capture_loop worker thread.  Every atomic access of the source *)
(* is one step; the owner's calls are sequences of such steps.             *)
(*                                                                         *)
(* RadaeDecoder: the warmup gate, the Hilbert transformer and the input    *)
(* resampler of processing_loop, over the state the class declares; and    *)
(* the peak-hold logic of meter_widget_update.  Each of these parts has a  *)
(* specification of its own (DecoderSpec, HilbertSpec, ResamplerSpec,      *)
(* MeterSpec) in which the other parts stay as constructed.                *)
(***************************************************************************)
EXTENDS Integers, FiniteSets, Sequences, TLC

\* ---- bounds -------------------------------------------------------------
\* RMS levels are abstracted to 0..MaxLevel
MaxLevel == 1
\* number of device handles the audio system can hand out at once
MaxHandles == 2
\* the application's levels are 0 and MaxAppLevel (in the meter's units)
MaxAppLevel == 4
\* number of capture devices an enumeration can find
MaxDevices == 1

Levels == 0..MaxLevel
HandleIds == 1..MaxHandles
Variants == {"alsa", "pulse", "stream"}

VARIABLES
    variant,        \* which AudioInput implementation is linked
    op,             \* public call in progress on the owning thread
    opc,            \* position of the owning thread inside that call
    och,            \* open(): local channel choice (ss.channels / ch / max_ch)
    running_,       \* std::atomic<bool> running_
    pcm_,           \* device handle (pcm_ / pa_ / stream_), 0 = null / not open
    pcmState,       \* ALSA PCM state: "none", "prepared", "setup" (after drop)
    channels_,      \* int channels_
    thread_,        \* TRUE iff thread_ is joinable
    level_left_,    \* std::atomic<float> level_left_
    level_right_,   \* std::atomic<float> level_right_
    held,           \* handles the audio system currently has open
    wpc,            \* position of the worker thread in capture_loop
    errKind,        \* ALSA: the error readi returned
    wl, wr,         \* worker locals: RMS computed for the block just read
    fault,          \* "none", or how the process died
    lastRet,        \* history: the call that returned last
    prevRet,        \* history: the call that returned before it
    snap,           \* history: observable state when the current/last call began
    iterErr,        \* history: this loop iteration's read returned an error
    exitWhy,        \* history: why the worker left the loop
    postReads,      \* history: reads completed since running_ was cleared
    postPubs        \* history: level pairs published since running_ was cleared

vars == <<variant, op, opc, och, running_, pcm_, pcmState, channels_, thread_,
          level_left_, level_right_, held, wpc, errKind, wl, wr, fault,
          lastRet, prevRet, snap, iterErr, exitWhy, postReads, postPubs>>

ownerVars  == <<op, opc, och, lastRet, prevRet, snap>>
objVars    == <<running_, pcm_, pcmState, channels_, thread_, held>>
levelVars  == <<level_left_, level_right_>>
workerVars == <<wpc, errKind, wl, wr, iterErr, exitWhy>>
postVars   == <<postReads, postPubs>>

\* ---- RadaeDecoder: warmup gate of processing_loop ------------------------
\* bound: synchronisation losses followed within one open/close cycle
MaxEpoch == 3

\* variant of WARMUP_FRAMES: a warmup buffer one frame short
WarmupFramesShort == 5 - 1

\* float warmup_buf_[5 * 36]: the number of feature frames the buffer holds
WARMUP_FRAMES == 5

VARIABLES
    dec_open,       \* RadaeDecoder: pcm_in_ / pcm_out_ are open
    dec_running_,   \* RadaeDecoder: std::atomic<bool> running_
    synced_,        \* std::atomic<bool> synced_
    fargan_ready_,  \* bool fargan_ready_
    warmup_count_,  \* int warmup_count_
    warmup_buf_,    \* warmup_buf_, one entry per frame slot: the tag of the
                    \* frame stored there, 0 = zero-initialised
    epoch,          \* history: 1 + synchronisation losses since open()
    fresh,          \* history: feature frames received since the last cold
                    \* start or reset (counted up to 6)
    vocIn,          \* history: the window last handed to the vocoder since
                    \* the last cold start or reset, <<>> if none
    fires           \* history: Accumulating -> Ready transitions since open()

decVars == <<dec_open, dec_running_, synced_, fargan_ready_, warmup_count_,
             warmup_buf_, epoch, fresh, vocIn, fires>>

FrameSlots == 1..WARMUP_FRAMES

\* RadaeDecoder(): default member initialisers
DecoderConstructed ==
    /\ dec_open = FALSE /\ dec_running_ = FALSE /\ synced_ = FALSE
    /\ fargan_ready_ = FALSE /\ warmup_count_ = 0
    /\ warmup_buf_ = [i \in FrameSlots |-> 0]
    /\ epoch = 1 /\ fresh = 0 /\ vocIn = <<>> /\ fires = 0

\* ---- RadaeDecoder: Hilbert transformer ----------------------------------
\* bounds: input samples fed after an initialisation; the test signals are an
\* impulse of amplitude 1..MaxAmp at sample 0..MaxPulseAt, or a ramp
MaxSamples == 200
MaxPulseAt == 70
MaxAmp == 2

\* variant of HILBERT_NTAPS: a ring one entry longer
HilbertNtapsEven == 127 + 1

\* static constexpr int HILBERT_NTAPS = 127;
HILBERT_NTAPS == 127

\* variant of HILBERT_DELAY: the delay rounded up
HilbertDelayUp == (HILBERT_NTAPS + 1) \div 2

\* static constexpr int HILBERT_DELAY = (HILBERT_NTAPS - 1) / 2;
HILBERT_DELAY == (HILBERT_NTAPS - 1) \div 2

VARIABLES
    hilbert_hist_,  \* float hilbert_hist_[HILBERT_NTAPS]
    hilbert_pos_,   \* int hilbert_pos_
    delay_buf_,     \* float delay_buf_[HILBERT_NTAPS]
    delay_pos_,     \* int delay_pos_
    hsig,           \* the input signal fed since the last initialisation
    hn,             \* history: input samples consumed since then
    out_re,         \* the real part of the last output pair
    nPairs          \* history: output pairs produced since then

hilVars == <<hilbert_hist_, hilbert_pos_, delay_buf_, delay_pos_,
             hsig, hn, out_re, nPairs>>

RingIdx == 0..(HILBERT_NTAPS - 1)

Signals ==
    [kind : {"impulse"}, at : 0..MaxPulseAt, amp : 1..MaxAmp]
        \cup [kind : {"ramp"}, at : {0}, amp : 1..MaxAmp]

\* no capture has delivered anything yet
NoSignal == [kind |-> "none", at |-> 0, amp |-> 0]

\* sample number n of a signal
Sample(sg, n) ==
    IF sg.kind = "impulse"
    THEN (IF n = sg.at THEN sg.amp ELSE 0)
    ELSE sg.amp * (n + 1)

\* RadaeDecoder(): rings zero-initialised, cursors 0
HilbertConstructed ==
    /\ hilbert_hist_ = [i \in RingIdx |-> 0] /\ hilbert_pos_ = 0
    /\ delay_buf_ = [i \in RingIdx |-> 0] /\ delay_pos_ = 0
    /\ hsig = NoSignal
    /\ hn = 0 /\ out_re = 0 /\ nPairs = 0

\* ---- RadaeDecoder: input resampler --------------------------------------
\* bounds: rates are 1..MaxRate (in units of a common divisor), samples are
\* 0..MaxSample, a capture block has 1..MaxBlock samples, and at most
\* MaxStream samples are fed between open() and close()
MaxRate == 2
MaxSample == 1
MaxBlock == 2
MaxStream == 5

VARIABLES
    rs_rin,           \* rate of the stream fed in (rate_in_), 0 = not open
    rs_rout,          \* rate of the stream produced (the codec rate)
    resamp_in_frac_,  \* double resamp_in_frac_, in units of 1 / rs_rout
    resamp_in_prev_,  \* float resamp_in_prev_
    rsIn,             \* history: every sample fed since open()
    rsOut,            \* history: every sample produced since open(), each
                      \* multiplied by rs_rout (keeps the weights integral)
    rsBlocks          \* history: number of blocks fed since open()

rsVars == <<rs_rin, rs_rout, resamp_in_frac_, resamp_in_prev_,
            rsIn, rsOut, rsBlocks>>

\* RadaeDecoder(): rates 0, resampler state 0
ResamplerConstructed ==
    /\ rs_rin = 0 /\ rs_rout = 0
    /\ resamp_in_frac_ = 0 /\ resamp_in_prev_ = 0
    /\ rsIn = <<>> /\ rsOut = <<>> /\ rsBlocks = 0

\* ---- level meter (meter_widget) ------------------------------------------
\* bound: levels and peaks are 0..MaxMeterLevel, in units of 2.5e-8
MaxMeterLevel == 14

\* static constexpr int PEAK_HOLD = 45;
PEAK_HOLD == 45

\* if (peak < 1e-7f) peak = 0.f;   1e-7 in units of 2.5e-8
PEAK_FLOOR == 4

VARIABLES
    m_level,        \* MeterState::level
    m_peak,         \* MeterState::peak
    m_timer,        \* MeterState::timer
    heldP,          \* history: the peak set by the last update with
                    \* level >= peak
    below           \* history: updates since then (counted up to 47)

meterVars == <<m_level, m_peak, m_timer, heldP, below>>

MeterLevels == 0..MaxMeterLevel

\* meter_widget_new(): MeterState value-initialised
MeterConstructed ==
    /\ m_level = 0 /\ m_peak = 0 /\ m_timer = 0
    /\ heldP = 0 /\ below = 0

VARIABLES
    st,             \* the stereo MeterState of g_meter
    stR,            \* a second run of the stereo meter, given the same left
                    \* levels as st and other right levels
    stL,            \* a third run, given the same right levels as st and
                    \* other left levels
    g_audio,        \* "nullptr" or "ptr"
    a_alive,        \* the AudioInput object g_audio last pointed to is allocated
    audio,          \* that object: pcm_ # nullptr, running_, the worker
                    \* thread, level_left_, level_right_
    g_timer,        \* id of the meter timer, 0 when none
    timer_src,      \* the GLib timeout source of on_meter_tick is installed
    ndev,           \* g_devices.size()
    sel,            \* active row of g_combo, -1 when none
    hpc,            \* position of the main thread inside on_window_destroy
    window,         \* "shown" or "destroyed"
    stopped,        \* history: stop_capture has run and no start_capture
                    \* has succeeded since
    lastH,          \* history: what the last step of the application did
    staleRead       \* history: a tick read levels through a dangling g_audio

appVars == <<st, stR, stL, g_audio, a_alive, audio, g_timer, timer_src,
             ndev, sel, hpc, window, stopped, lastH, staleRead>>

AppLevels == {0, MaxAppLevel}

\* MeterState value-initialised (stereo)
MeterStateNew ==
    [level_left |-> 0, level_right |-> 0, peak_left |-> 0, peak_right |-> 0,
     timer_left |-> 0, timer_right |-> 0]

\* AudioInput as constructed
AudioNew ==
    [pcm |-> FALSE, running |-> FALSE, thread |-> "none", left |-> 0, right |-> 0]

\* the application after activate(): widgets built, first on_refresh done
AppConstructed ==
    /\ st = MeterStateNew /\ stR = MeterStateNew /\ stL = MeterStateNew
    /\ g_audio = "nullptr" /\ a_alive = FALSE /\ audio = AudioNew
    /\ g_timer = 0 /\ timer_src = FALSE
    /\ ndev = MaxDevices /\ sel = -1   \* other sizes: see OnRefresh
    /\ hpc = "idle" /\ window = "shown"
    /\ stopped = FALSE /\ lastH = "none" /\ staleRead = FALSE

\* everything outside AudioInput
auxVars == <<decVars, hilVars, rsVars, meterVars, appVars>>

\* what the steps of each part leave alone
decRest == <<vars, hilVars, rsVars, meterVars, appVars>>
hilRest == <<vars, decVars, rsVars, meterVars, appVars>>
rsRest == <<vars, decVars, hilVars, meterVars, appVars>>
meterRest == <<vars, decVars, hilVars, rsVars, appVars>>
appRest == <<vars, decVars, hilVars, rsVars, meterVars>>

AuxInit ==
    /\ DecoderConstructed /\ HilbertConstructed
    /\ ResamplerConstructed /\ MeterConstructed
    /\ AppConstructed

\* the state a caller can observe through the public interface
Obs == [running |-> running_, pcm |-> pcm_, channels |-> channels_,
        left |-> level_left_, right |-> level_right_, joinable |-> thread_]

Cap(n) == IF n < 2 THEN n + 1 ELSE 2

\* the owning thread / the worker is at the given position and the process lives
At(pc) == fault = "none" /\ opc = pc
WAt(pc) == fault = "none" /\ wpc = pc

\* ---- construction -------------------------------------------------------
Init ==
    /\ variant \in Variants
    /\ op = "none" /\ opc = "idle" /\ och = 0
    /\ running_ = FALSE
    /\ pcm_ = 0 /\ pcmState = "none" /\ channels_ = 0
    /\ thread_ = FALSE
    /\ level_left_ = 0 /\ level_right_ = 0
    /\ held = {}
    /\ wpc = "none" /\ errKind = "none" /\ wl = 0 /\ wr = 0
    /\ fault = "none"
    /\ lastRet = "none" /\ prevRet = "none"
    /\ snap = Obs
    /\ iterErr = FALSE /\ exitWhy = "none"
    /\ postReads = 0 /\ postPubs = 0
    /\ AuxInit

\* ---- owner: entering a public call --------------------------------------
Call(o, first) ==
    /\ At("idle")
    /\ op' = o /\ opc' = first
    /\ snap' = Obs
    /\ UNCHANGED <<och, lastRet, prevRet>>
    /\ UNCHANGED <<variant, auxVars, objVars, levelVars, workerVars, postVars, fault>>

\* a public call returns to the caller
Return(res) ==
    /\ op' = "none" /\ opc' = "idle"
    /\ prevRet' = lastRet /\ lastRet' = res

\* variant of CallOpen: open() that forgets the leading close()
CallOpenNoClose == Call("open", "open_dev")

\* variant of CallClose: close() that releases the device without stop()
CallCloseNoStop == Call("close", "close_release")

\* stop() begins with the running_ test
CallStop == Call("stop", "stop_check")

\* close() begins by calling stop()
CallClose == Call("close", "stop_check")

\* open() begins by calling close(), which calls stop()
CallOpen ==
    Call("open", "stop_check")

CallStart == Call("start", "start_check")


\* ---- stop() -------------------------------------------------------------
\* control goes back to whoever called stop(): the caller, or close()
StopReturns ==
    IF op = "stop"
    THEN Return("stop") /\ UNCHANGED <<och, snap>>
    ELSE opc' = "close_release" /\ UNCHANGED <<op, och, lastRet, prevRet, snap>>

\* if (!running_) return;
StopCheck ==
    /\ At("stop_check")
    /\ IF ~running_
       THEN StopReturns
       ELSE opc' = "stop_clear" /\ UNCHANGED <<op, och, lastRet, prevRet, snap>>
    /\ UNCHANGED <<variant, auxVars, objVars, levelVars, workerVars, postVars, fault>>

\* variant of StopClear: stop() that leaves running_ set
StopClearForgotten ==
    /\ At("stop_clear")
    /\ opc' = IF variant = "alsa" THEN "stop_drop" ELSE "stop_join"
    /\ UNCHANGED <<op, och, lastRet, prevRet, snap>>
    /\ UNCHANGED <<variant, auxVars, objVars, levelVars, workerVars, postVars, fault>>

\* running_ = false;
StopClear ==
    /\ At("stop_clear")
    /\ running_' = FALSE
    /\ opc' = IF variant = "alsa" THEN "stop_drop" ELSE "stop_join"
    /\ UNCHANGED <<op, och, lastRet, prevRet, snap>>
    /\ UNCHANGED <<variant, auxVars, pcm_, pcmState, channels_, thread_, held>>
    /\ UNCHANGED <<levelVars, workerVars, postVars, fault>>

\* variant of StopDrop: stop() without the snd_pcm_drop call
StopDropSkipped ==
    /\ At("stop_drop")
    /\ opc' = "stop_join"
    /\ UNCHANGED <<op, och, lastRet, prevRet, snap>>
    /\ UNCHANGED <<variant, auxVars, objVars, levelVars, workerVars, postVars, fault>>

\* ALSA only:  if (pcm_) snd_pcm_drop(pcm_);   the PCM goes to state SETUP
StopDrop ==
    /\ At("stop_drop")
    /\ pcmState' = IF pcm_ # 0 THEN "setup" ELSE pcmState
    /\ opc' = "stop_join"
    /\ UNCHANGED <<op, och, lastRet, prevRet, snap>>
    /\ UNCHANGED <<variant, auxVars, running_, pcm_, channels_, thread_, held>>
    /\ UNCHANGED <<levelVars, workerVars, postVars, fault>>

\* variant of StopJoin: stop() that does not wait for the worker
StopJoinNoWait ==
    /\ At("stop_join")
    /\ opc' = "stop_lvl_l"
    /\ UNCHANGED <<op, och, lastRet, prevRet, snap>>
    /\ UNCHANGED <<variant, auxVars, objVars, levelVars, workerVars, postVars, fault>>

\* if (thread_.joinable()) thread_.join();   join blocks until the worker is done
StopJoin ==
    /\ At("stop_join")
    /\ IF thread_
       THEN /\ WAt("done")
            /\ wpc' = "none" /\ thread_' = FALSE /\ exitWhy' = "none"
       ELSE UNCHANGED <<wpc, thread_, exitWhy>>
    /\ opc' = "stop_lvl_l"
    /\ UNCHANGED <<op, och, lastRet, prevRet, snap>>
    /\ UNCHANGED <<variant, auxVars, running_, pcm_, pcmState, channels_, held>>
    /\ UNCHANGED <<levelVars, errKind, wl, wr, iterErr, postVars, fault>>

\* level_left_ = 0.0f;
StopLevelL ==
    /\ At("stop_lvl_l")
    /\ level_left_' = 0
    /\ opc' = "stop_lvl_r"
    /\ UNCHANGED <<op, och, lastRet, prevRet, snap>>
    /\ UNCHANGED <<variant, auxVars, objVars, level_right_, workerVars, postVars, fault>>

\* level_right_ = 0.0f;  and stop() returns
StopLevelR ==
    /\ At("stop_lvl_r")
    /\ level_right_' = 0
    /\ StopReturns
    /\ UNCHANGED <<variant, auxVars, objVars, level_left_, workerVars, postVars, fault>>

\* ---- close() ------------------------------------------------------------
\* the audio system releases handle h; releasing a handle it does not hold
\* (a stale pointer) is a fault
ReleaseHandle(h) ==
    IF h \in held
    THEN held' = held \ {h} /\ UNCHANGED fault
    ELSE fault' = "bad_handle" /\ UNCHANGED held

\* AudioStream::close(): releases the stream if it is open, else does nothing
StreamClose ==
    IF pcm_ # 0
    THEN ReleaseHandle(pcm_) /\ pcm_' = 0
    ELSE UNCHANGED <<pcm_, held, fault>>

\* variant of CloseRelease: the handle is released but the member is not reset
CloseReleaseKeepsHandle ==
    /\ At("close_release")
    /\ IF pcm_ # 0
       THEN ReleaseHandle(pcm_)
       ELSE UNCHANGED <<held, fault>>
    /\ opc' = "close_lvl_l"
    /\ UNCHANGED <<pcm_, channels_, pcmState>>
    /\ UNCHANGED <<op, och, lastRet, prevRet, snap>>
    /\ UNCHANGED <<variant, auxVars, running_, thread_, levelVars, workerVars, postVars>>

\* variant of CloseRelease: close() that does not reset channels_
CloseReleaseKeepsChannels ==
    /\ At("close_release")
    /\ IF variant = "stream"
       THEN StreamClose /\ UNCHANGED <<channels_, pcmState>>
       ELSE IF pcm_ # 0
            THEN /\ ReleaseHandle(pcm_)
                 /\ pcm_' = 0 /\ pcmState' = "none"
                 /\ UNCHANGED channels_
            ELSE UNCHANGED <<pcm_, channels_, pcmState, held, fault>>
    /\ opc' = "close_lvl_l"
    /\ UNCHANGED <<op, och, lastRet, prevRet, snap>>
    /\ UNCHANGED <<variant, auxVars, running_, thread_, levelVars, workerVars, postVars>>

\* ALSA / PulseAudio: if (pcm_) { snd_pcm_close(pcm_); pcm_ = nullptr; channels_ = 0; }
\* AudioStream:       stream_.close(); channels_ = 0;
CloseRelease ==
    /\ At("close_release")
    /\ IF variant = "stream"
       THEN StreamClose /\ channels_' = 0 /\ UNCHANGED pcmState
       ELSE IF pcm_ # 0
            THEN /\ ReleaseHandle(pcm_)
                 /\ pcm_' = 0 /\ channels_' = 0 /\ pcmState' = "none"
            ELSE UNCHANGED <<pcm_, channels_, pcmState, held, fault>>
    /\ opc' = "close_lvl_l"
    /\ UNCHANGED <<op, och, lastRet, prevRet, snap>>
    /\ UNCHANGED <<variant, auxVars, running_, thread_, levelVars, workerVars, postVars>>

\* level_left_ = 0.0f;
CloseLevelL ==
    /\ At("close_lvl_l")
    /\ level_left_' = 0
    /\ opc' = "close_lvl_r"
    /\ UNCHANGED <<op, och, lastRet, prevRet, snap>>
    /\ UNCHANGED <<variant, auxVars, objVars, level_right_, workerVars, postVars, fault>>

\* level_right_ = 0.0f;  and close() returns to the caller, or to open()
CloseLevelR ==
    /\ At("close_lvl_r")
    /\ level_right_' = 0
    /\ IF op = "close"
       THEN Return("close") /\ UNCHANGED <<och, snap>>
       ELSE opc' = "open_dev" /\ UNCHANGED <<op, och, lastRet, prevRet, snap>>
    /\ UNCHANGED <<variant, auxVars, objVars, level_left_, workerVars, postVars, fault>>

\* ---- open() -------------------------------------------------------------
\* the audio system opens a device and hands out a handle it does not hold yet
\* (handles are interchangeable: the lowest free one is handed out)
AcquireHandle(h) ==
    /\ h \in HandleIds \ held
    /\ \A g \in HandleIds \ held : h <= g
    /\ held' = held \cup {h}
    /\ pcm_' = h

\* ALSA:        if (snd_pcm_open(&pcm_, ...) < 0) return false;
\* PulseAudio:  pa_ = pa_simple_new(... 2 channels ...);
\* AudioStream: int ch = 2; if (!stream_.open(hw_id, true, ch, 44100, 512)) ch = 1 ...
OpenDev ==
    /\ At("open_dev")
    /\ \/ /\ \E h \in HandleIds : AcquireHandle(h)
          /\ IF variant = "alsa"
             THEN opc' = "open_pre" /\ UNCHANGED och
             ELSE opc' = "open_chan" /\ och' = 2
          /\ UNCHANGED <<op, lastRet, prevRet>>
       \/ /\ IF variant = "alsa"
             THEN Return("open_fail") /\ UNCHANGED <<och, pcm_>>
             ELSE /\ opc' = "open_mono" /\ och' = 1
                  /\ pcm_' = IF variant = "pulse" THEN 0 ELSE pcm_
                  /\ UNCHANGED <<op, lastRet, prevRet>>
          /\ UNCHANGED held
    /\ UNCHANGED <<snap, variant, auxVars, running_, pcmState, channels_, thread_>>
    /\ UNCHANGED <<levelVars, workerVars, postVars, fault>>

\* PulseAudio / AudioStream: the mono fallback;  if it fails too, return false
OpenMono ==
    /\ At("open_mono")
    /\ \/ /\ \E h \in HandleIds : AcquireHandle(h)
          /\ opc' = "open_chan"
          /\ UNCHANGED <<op, lastRet, prevRet>>
       \/ /\ Return("open_fail")
          /\ pcm_' = IF variant = "pulse" THEN 0 ELSE pcm_
          /\ UNCHANGED held
    /\ UNCHANGED <<och, snap, variant, auxVars, running_, pcmState, channels_, thread_>>
    /\ UNCHANGED <<levelVars, workerVars, postVars, fault>>

\* ALSA: snd_pcm_hw_params_any / set_access / set_format, each "goto fail" on
\* error; then max_ch is read:  (max_ch >= 2) ? 2 : 1
OpenPre ==
    /\ At("open_pre")
    /\ \/ opc' = "open_chan" /\ och' \in {1, 2}
       \/ opc' = "open_fail" /\ UNCHANGED och
    /\ UNCHANGED <<op, lastRet, prevRet, snap>>
    /\ UNCHANGED <<variant, auxVars, objVars, levelVars, workerVars, postVars, fault>>

\* channels_ = ch;   (PulseAudio / AudioStream: followed by return true)
OpenChan ==
    /\ At("open_chan")
    /\ channels_' = och
    /\ IF variant = "alsa"
       THEN opc' = "open_post" /\ UNCHANGED <<op, lastRet, prevRet>>
       ELSE Return("open_ok")
    /\ UNCHANGED <<och, snap, variant, auxVars, running_, pcm_, pcmState, thread_, held>>
    /\ UNCHANGED <<levelVars, workerVars, postVars, fault>>

\* ALSA: set_channels, set_rate_near, hw_params, prepare: "goto fail" on error,
\* else the PCM is PREPARED and open() returns true
OpenPost ==
    /\ At("open_post")
    /\ \/ /\ pcmState' = "prepared"
          /\ Return("open_ok")
       \/ /\ opc' = "open_fail"
          /\ UNCHANGED <<op, lastRet, prevRet, pcmState>>
    /\ UNCHANGED <<och, snap, variant, auxVars, running_, pcm_, channels_, thread_, held>>
    /\ UNCHANGED <<levelVars, workerVars, postVars, fault>>

\* variant of OpenFail: the fail path forgets channels_ = 0
OpenFailKeepsChannels ==
    /\ At("open_fail")
    /\ ReleaseHandle(pcm_)
    /\ pcm_' = 0 /\ pcmState' = "none"
    /\ Return("open_fail")
    /\ UNCHANGED <<och, snap, variant, auxVars, running_, channels_, thread_>>
    /\ UNCHANGED <<levelVars, workerVars, postVars>>

\* ALSA  fail:  snd_pcm_close(pcm_); pcm_ = nullptr; channels_ = 0; return false;
OpenFail ==
    /\ At("open_fail")
    /\ ReleaseHandle(pcm_)
    /\ pcm_' = 0 /\ channels_' = 0 /\ pcmState' = "none"
    /\ Return("open_fail")
    /\ UNCHANGED <<och, snap, variant, auxVars, running_, thread_>>
    /\ UNCHANGED <<levelVars, workerVars, postVars>>

\* ---- start() ------------------------------------------------------------
\* variant of StartCheck: start() that tests the handle only
StartCheckNoRunningTest ==
    /\ At("start_check")
    /\ IF pcm_ = 0
       THEN Return("start")
       ELSE opc' = "start_set" /\ UNCHANGED <<op, lastRet, prevRet>>
    /\ UNCHANGED <<och, snap>>
    /\ UNCHANGED <<variant, auxVars, objVars, levelVars, workerVars, postVars, fault>>

\* if (!pcm_ || running_) return;      (AudioStream: !stream_.is_open())
StartCheck ==
    /\ At("start_check")
    /\ IF pcm_ = 0 \/ running_
       THEN Return("start")
       ELSE opc' = "start_set" /\ UNCHANGED <<op, lastRet, prevRet>>
    /\ UNCHANGED <<och, snap>>
    /\ UNCHANGED <<variant, auxVars, objVars, levelVars, workerVars, postVars, fault>>

\* running_ = true;
StartSet ==
    /\ At("start_set")
    /\ running_' = TRUE
    /\ opc' = "start_spawn"
    /\ UNCHANGED <<op, och, lastRet, prevRet, snap>>
    /\ UNCHANGED <<variant, auxVars, pcm_, pcmState, channels_, thread_, held>>
    /\ UNCHANGED <<levelVars, workerVars, postVars, fault>>

\* thread_ = std::thread(&AudioInput::capture_loop, this);
\* move-assigning to a joinable std::thread calls std::terminate
StartSpawn ==
    /\ At("start_spawn")
    /\ IF thread_
       THEN /\ fault' = "terminate"
            /\ UNCHANGED <<thread_, wpc, exitWhy, postVars>>
       ELSE /\ thread_' = TRUE
            /\ wpc' = "init" /\ exitWhy' = "none"
            /\ postReads' = 0 /\ postPubs' = 0
            /\ UNCHANGED fault
    /\ Return("start")
    /\ UNCHANGED <<och, snap, variant, auxVars, running_, pcm_, pcmState, channels_, held>>
    /\ UNCHANGED <<levelVars, errKind, wl, wr, iterErr>>

\* ---- capture_loop() (worker thread) --------------------------------------
\* the worker leaves the loop and the thread function returns
WorkerExit(why) ==
    /\ wpc' = "done" /\ exitWhy' = why /\ errKind' = "none"

\* std::vector<int16_t> buf(READ_FRAMES * channels_);
WInit ==
    /\ WAt("init")
    /\ wpc' = "top"
    /\ UNCHANGED <<errKind, wl, wr, iterErr, exitWhy>>
    /\ UNCHANGED <<variant, auxVars, ownerVars, objVars, levelVars, postVars, fault>>

\* variant of WTop: a loop that does not test running_ at its top
WTopNoTest ==
    /\ WAt("top")
    /\ iterErr' = FALSE
    /\ wpc' = "read"
    /\ UNCHANGED <<exitWhy, errKind, wl, wr>>
    /\ UNCHANGED <<variant, auxVars, ownerVars, objVars, levelVars, postVars, fault>>

\* while (running_.load(std::memory_order_relaxed)) {
WTop ==
    /\ WAt("top")
    /\ iterErr' = FALSE
    /\ IF running_
       THEN wpc' = "read" /\ UNCHANGED <<exitWhy, errKind>>
       ELSE WorkerExit("flag")
    /\ UNCHANGED <<wl, wr>>
    /\ UNCHANGED <<variant, auxVars, ownerVars, objVars, levelVars, postVars, fault>>

\* a read call has returned: counted when running_ was already cleared
ReadReturned ==
    /\ postReads' = IF running_ THEN postReads ELSE Cap(postReads)
    /\ UNCHANGED postPubs

\* variant of WReadData: the mono case does not copy sum_l into sum_r
WReadDataMonoUnset ==
    /\ WAt("read")
    /\ variant = "alsa" => pcmState = "prepared"
    /\ \E l \in Levels, r \in Levels :
          /\ channels_ = 1 => r = 0
          /\ wl' = l /\ wr' = r
    /\ wpc' = "pub_l"
    /\ ReadReturned
    /\ UNCHANGED <<errKind, iterErr, exitWhy>>
    /\ UNCHANGED <<variant, auxVars, ownerVars, objVars, levelVars, fault>>

\* the blocking read returns a block; the per-channel RMS is computed from it
\* (channels_ == 1: sum_r = sum_l)
WReadData ==
    /\ WAt("read")
    /\ variant = "alsa" => pcmState = "prepared"
    /\ \E l \in Levels, r \in Levels :
          /\ channels_ = 1 => r = l
          /\ wl' = l /\ wr' = r
    /\ wpc' = "pub_l"
    /\ ReadReturned
    /\ UNCHANGED <<errKind, iterErr, exitWhy>>
    /\ UNCHANGED <<variant, auxVars, ownerVars, objVars, levelVars, fault>>

\* ALSA:  if (n == 0) continue;
WReadZero ==
    /\ WAt("read")
    /\ variant = "alsa" /\ pcmState = "prepared"
    /\ wpc' = "top"
    /\ ReadReturned
    /\ UNCHANGED <<errKind, wl, wr, iterErr, exitWhy>>
    /\ UNCHANGED <<variant, auxVars, ownerVars, objVars, levelVars, fault>>

\* the read fails:  ALSA n < 0 (-EINTR, an xrun, or another error);
\* PulseAudio ret < 0;  AudioStream err == AUDIO_ERROR
WReadErr ==
    /\ WAt("read")
    /\ IF variant = "alsa"
       THEN /\ pcmState = "prepared"
            /\ errKind' \in {"EINTR", "XRUN", "FATAL"}
            /\ wpc' = "err"
       ELSE /\ errKind' = "FATAL"
            /\ wpc' = "err_chk"
    /\ iterErr' = TRUE
    /\ ReadReturned
    /\ UNCHANGED <<wl, wr, exitWhy>>
    /\ UNCHANGED <<variant, auxVars, ownerVars, objVars, levelVars, fault>>

\* ALSA: snd_pcm_readi on a PCM that snd_pcm_drop left in state SETUP returns
\* -EBADFD at once, and a readi blocked when the drop happens is woken with it
WReadBadState ==
    /\ WAt("read")
    /\ variant = "alsa" /\ pcmState = "setup"
    /\ errKind' = "FATAL"
    /\ wpc' = "err"
    /\ iterErr' = TRUE
    /\ ReadReturned
    /\ UNCHANGED <<wl, wr, exitWhy>>
    /\ UNCHANGED <<variant, auxVars, ownerVars, objVars, levelVars, fault>>

\* ALSA:  if (n == -EINTR) continue;
WErr ==
    /\ WAt("err")
    /\ IF errKind = "EINTR"
       THEN wpc' = "top" /\ errKind' = "none"
       ELSE wpc' = "err_chk" /\ UNCHANGED errKind
    /\ UNCHANGED <<wl, wr, iterErr, exitWhy>>
    /\ UNCHANGED <<variant, auxVars, ownerVars, objVars, levelVars, postVars, fault>>

\* variant of WErrChk: the error branch lacks its "continue" and falls through
\* to the RMS computation over the stale buffer
WErrChkFallsThrough ==
    /\ WAt("err_chk")
    /\ IF ~running_
       THEN WorkerExit("flag")
       ELSE wpc' = "pub_l" /\ errKind' = "none" /\ UNCHANGED exitWhy
    /\ UNCHANGED <<wl, wr, iterErr>>
    /\ UNCHANGED <<variant, auxVars, ownerVars, objVars, levelVars, postVars, fault>>

\* if (!running_.load(std::memory_order_relaxed)) break;
\* ALSA: else snd_pcm_recover;   PulseAudio / AudioStream: else continue;
WErrChk ==
    /\ WAt("err_chk")
    /\ IF ~running_
       THEN WorkerExit("flag")
       ELSE IF variant = "alsa"
            THEN wpc' = "recover" /\ UNCHANGED <<errKind, exitWhy>>
            ELSE wpc' = "top" /\ errKind' = "none" /\ UNCHANGED exitWhy
    /\ UNCHANGED <<wl, wr, iterErr>>
    /\ UNCHANGED <<variant, auxVars, ownerVars, objVars, levelVars, postVars, fault>>

\* ALSA:  n = snd_pcm_recover(pcm_, n, 0);  if (n < 0) break;  continue;
\* recover re-prepares the PCM after an xrun and fails on any other error
WRecover ==
    /\ WAt("recover")
    /\ \/ /\ errKind = "XRUN"
          /\ pcmState' = "prepared"
          /\ wpc' = "top" /\ errKind' = "none"
          /\ UNCHANGED exitWhy
       \/ /\ WorkerExit("error")
          /\ UNCHANGED pcmState
    /\ UNCHANGED <<wl, wr, iterErr>>
    /\ UNCHANGED <<running_, pcm_, channels_, thread_, held>>
    /\ UNCHANGED <<variant, auxVars, ownerVars, levelVars, postVars, fault>>

\* level_left_.store(sqrt(sum_l / n), std::memory_order_relaxed);
WPubL ==
    /\ WAt("pub_l")
    /\ level_left_' = wl
    /\ wpc' = "pub_r"
    /\ UNCHANGED <<errKind, wl, wr, iterErr, exitWhy>>
    /\ UNCHANGED <<variant, auxVars, ownerVars, objVars, level_right_, postVars, fault>>

\* level_right_.store(sqrt(sum_r / n), std::memory_order_relaxed);  }
WPubR ==
    /\ WAt("pub_r")
    /\ level_right_' = wr
    /\ wpc' = "top"
    /\ wl' = 0 /\ wr' = 0
    /\ postPubs' = IF running_ THEN postPubs ELSE Cap(postPubs)
    /\ UNCHANGED postReads
    /\ UNCHANGED <<errKind, iterErr, exitWhy>>
    /\ UNCHANGED <<variant, auxVars, ownerVars, objVars, level_left_, fault>>

\* ---- specification ------------------------------------------------------
\* steps the owning thread takes by itself once a call is in progress
OwnerStep ==
    \/ StopCheck \/ StopClear \/ StopDrop \/ StopJoin \/ StopLevelL \/ StopLevelR
    \/ CloseRelease \/ CloseLevelL \/ CloseLevelR
    \/ OpenDev \/ OpenMono \/ OpenPre \/ OpenChan \/ OpenPost \/ OpenFail
    \/ StartCheck \/ StartSet \/ StartSpawn

\* steps the worker takes by itself (no capture data needed)
WorkerStep ==
    \/ WInit \/ WTop \/ WReadBadState \/ WErr \/ WErrChk \/ WRecover
    \/ WPubL \/ WPubR

\* what the capture source decides: a block, nothing, or an error
SourceStep == WReadData \/ WReadZero \/ WReadErr

OwnerCall == CallOpen \/ CallClose \/ CallStart \/ CallStop

Next == OwnerCall \/ OwnerStep \/ WorkerStep \/ SourceStep

Spec == Init /\ [][Next]_vars

\* both threads are scheduled; the capture source owes nothing
FairSpec == Spec /\ WF_vars(OwnerStep) /\ WF_vars(WorkerStep)

TypeOK ==
    /\ variant \in Variants
    /\ op \in {"none", "open", "close", "start", "stop"}
    /\ och \in 0..2 /\ channels_ \in 0..2
    /\ running_ \in BOOLEAN /\ thread_ \in BOOLEAN
    /\ pcm_ \in {0} \cup HandleIds /\ held \subseteq HandleIds
    /\ pcmState \in {"none", "prepared", "setup"}
    /\ level_left_ \in Levels /\ level_right_ \in Levels
    /\ wl \in Levels /\ wr \in Levels
    /\ wpc \in {"none", "init", "top", "read", "err", "err_chk", "recover",
                "pub_l", "pub_r", "done"}
    /\ fault \in {"none", "terminate", "bad_handle"}
    /\ postReads \in 0..2 /\ postPubs \in 0..2

\* ---- RadaeDecoder: lifecycle and the warmup gate of processing_loop ------
\* the lifecycle calls are taken whole (their interleaving with the worker is
\* that of AudioInput above); one step of the worker is one loop iteration

Count6(n) == IF n < 6 THEN n + 1 ELSE n

\* the warmup state as open() leaves it: a cold start
ColdStart ==
    /\ fargan_ready_' = FALSE /\ warmup_count_' = 0
    /\ warmup_buf_' = [i \in FrameSlots |-> 0]
    /\ epoch' = 1 /\ fresh' = 0 /\ vocIn' = <<>> /\ fires' = 0

\* open(): devices opened, all pipeline state reinitialised
DecOpen ==
    /\ ~dec_open /\ ~dec_running_
    /\ dec_open' = TRUE
    /\ ColdStart
    /\ UNCHANGED <<dec_running_, synced_>>
    /\ UNCHANGED decRest

\* start(): launches the processing thread on an opened, not running decoder
DecStart ==
    /\ dec_open /\ ~dec_running_
    /\ dec_running_' = TRUE
    /\ UNCHANGED <<dec_open, synced_, fargan_ready_, warmup_count_,
                   warmup_buf_, epoch, fresh, vocIn, fires>>
    /\ UNCHANGED decRest

\* variant of DecStop: stop() that also clears the readiness flag
DecStopClearsReady ==
    /\ dec_running_
    /\ dec_running_' = FALSE /\ synced_' = FALSE
    /\ fargan_ready_' = FALSE
    /\ UNCHANGED <<dec_open, warmup_count_, warmup_buf_, epoch,
                   fresh, vocIn, fires>>
    /\ UNCHANGED decRest

\* stop(): the processing thread is told to stop and joined
DecStop ==
    /\ dec_running_
    /\ dec_running_' = FALSE /\ synced_' = FALSE
    /\ UNCHANGED <<dec_open, fargan_ready_, warmup_count_, warmup_buf_, epoch,
                   fresh, vocIn, fires>>
    /\ UNCHANGED decRest

\* close(): stop(), then the devices are released
DecClose ==
    /\ dec_open
    /\ dec_open' = FALSE /\ dec_running_' = FALSE /\ synced_' = FALSE
    /\ UNCHANGED <<fargan_ready_, warmup_count_, warmup_buf_, epoch,
                   fresh, vocIn, fires>>
    /\ UNCHANGED decRest

\* the window after a further frame has been shifted in
ShiftIn(buf, tag) ==
    [i \in FrameSlots |-> IF i < WARMUP_FRAMES THEN buf[i + 1] ELSE tag]

\* one iteration in which the receiver returns a decoded feature frame:
\* while warming up the frame is stored and counted, and the frame that
\* completes the buffer primes the vocoder with the whole buffer; once ready,
\* each frame is shifted in and the vocoder is invoked
RxFrame ==
    /\ dec_running_
    /\ synced_' = TRUE
    /\ fresh' = Count6(fresh)
    /\ IF ~fargan_ready_
       THEN /\ warmup_buf_' =
                  [warmup_buf_ EXCEPT ![warmup_count_ + 1] = epoch]
            /\ warmup_count_' = warmup_count_ + 1
            /\ IF warmup_count_ + 1 >= WARMUP_FRAMES
               THEN /\ fargan_ready_' = TRUE
                    /\ vocIn' = warmup_buf_'
                    /\ fires' = Cap(fires)
               ELSE UNCHANGED <<fargan_ready_, vocIn, fires>>
       ELSE /\ warmup_buf_' = ShiftIn(warmup_buf_, epoch)
            /\ vocIn' = warmup_buf_'
            /\ UNCHANGED <<fargan_ready_, warmup_count_, fires>>
    /\ UNCHANGED <<dec_open, dec_running_, epoch>>
    /\ UNCHANGED decRest

\* variant of RxNoSync: the reset clears the frame count only
RxNoSyncKeepsReady ==
    /\ dec_running_ /\ epoch < MaxEpoch
    /\ synced_' = FALSE
    /\ warmup_count_' = 0
    /\ epoch' = epoch + 1 /\ fresh' = 0 /\ vocIn' = <<>>
    /\ UNCHANGED <<dec_open, dec_running_, fargan_ready_, warmup_buf_, fires>>
    /\ UNCHANGED decRest

\* one iteration in which the receiver reports "not synchronised": the
\* warmup is reset to Empty and the loop goes on
RxNoSync ==
    /\ dec_running_ /\ epoch < MaxEpoch
    /\ synced_' = FALSE
    /\ fargan_ready_' = FALSE /\ warmup_count_' = 0
    /\ epoch' = epoch + 1 /\ fresh' = 0 /\ vocIn' = <<>>
    /\ UNCHANGED <<dec_open, dec_running_, warmup_buf_, fires>>
    /\ UNCHANGED decRest

DecInit == Init /\ variant = "alsa"

DecNext ==
    \/ DecOpen \/ DecStart \/ DecStop \/ DecClose
    \/ RxFrame \/ RxNoSync

DecoderSpec == DecInit /\ [][DecNext]_decVars

DecTypeOK ==
    /\ dec_open \in BOOLEAN /\ dec_running_ \in BOOLEAN /\ synced_ \in BOOLEAN
    /\ fargan_ready_ \in BOOLEAN
    /\ warmup_count_ \in 0..WARMUP_FRAMES
    /\ warmup_buf_ \in [FrameSlots -> 0..MaxEpoch]
    /\ epoch \in 1..MaxEpoch /\ fresh \in 0..6 /\ fires \in 0..2

\* ---- RadaeDecoder: Hilbert transformer steps -----------------------------
\* (re)initialisation at open(): rings zeroed, cursors reset
HilbertReset ==
    /\ hsig # NoSignal
    /\ hilbert_hist_' = [i \in RingIdx |-> 0] /\ hilbert_pos_' = 0
    /\ delay_buf_' = [i \in RingIdx |-> 0] /\ delay_pos_' = 0
    /\ hsig' = NoSignal
    /\ hn' = 0 /\ out_re' = 0 /\ nPairs' = 0
    /\ UNCHANGED hilRest

\* the capture source settles which signal it delivers from now on
HilbertFeed ==
    /\ hsig = NoSignal
    /\ hsig' \in Signals
    /\ UNCHANGED <<hilbert_hist_, hilbert_pos_, delay_buf_, delay_pos_,
                   hn, out_re, nPairs>>
    /\ UNCHANGED hilRest

\* one input sample: it is written to both rings at their write cursors, the
\* real output is read from the delay ring HILBERT_DELAY entries behind the
\* cursor, and both cursors advance by one modulo HILBERT_NTAPS.  The
\* imaginary output (FIR over hilbert_hist_ with hilbert_coeffs_) is a pair
\* member whose value is not modelled: the coefficient table is not in src.
HilbertSample ==
    /\ hsig # NoSignal /\ hn < MaxSamples
    /\ LET x == Sample(hsig, hn)
           rd == (delay_pos_ + HILBERT_NTAPS - HILBERT_DELAY) % HILBERT_NTAPS
       IN  /\ hilbert_hist_' = [hilbert_hist_ EXCEPT ![hilbert_pos_] = x]
           /\ delay_buf_' = [delay_buf_ EXCEPT ![delay_pos_] = x]
           /\ out_re' = delay_buf_'[rd]
    /\ hilbert_pos_' = (hilbert_pos_ + 1) % HILBERT_NTAPS
    /\ delay_pos_' = (delay_pos_ + 1) % HILBERT_NTAPS
    /\ hn' = hn + 1 /\ nPairs' = nPairs + 1
    /\ UNCHANGED hsig
    /\ UNCHANGED hilRest

HilbertInit == Init /\ variant = "alsa"

HilbertNext == HilbertReset \/ HilbertFeed \/ HilbertSample

HilbertSpec == HilbertInit /\ [][HilbertNext]_hilVars

\* ---- RadaeDecoder: input resampler steps --------------------------------
Rates == 1..MaxRate

\* the blocks a capture read can deliver
Blocks == UNION {[1..n -> 0..MaxSample] : n \in 1..MaxBlock}

\* linear interpolation over one block.  pos is the cursor in units of
\* 1 / rout; its integer part idx selects the pair (sample idx - 1, sample
\* idx) of the block, sample -1 being the last sample of the previous block
\* (prev); the fractional part is the weight.  Produces the output samples
\* (times rout) up to the end of the block.
RECURSIVE Interpolate(_, _, _, _, _)
Interpolate(blk, pos, prev, rin, rout) ==
    LET idx == pos \div rout
        f   == pos % rout
    IN  IF idx >= Len(blk)
        THEN <<>>
        ELSE LET s0 == IF idx = 0 THEN prev ELSE blk[idx]
                 s1 == blk[idx + 1]
             IN  <<s0 * rout + f * (s1 - s0)>>
                     \o Interpolate(blk, pos + rin, prev, rin, rout)

\* variant of Resample: no special case for equal rates
ResampleAlwaysInterpolates(blk, frac, prev, rin, rout) ==
    LET out == Interpolate(blk, frac, prev, rin, rout)
    IN  [out  |-> out,
         frac |-> frac + Len(out) * rin - Len(blk) * rout,
         prev |-> blk[Len(blk)]]

\* the resampler applied to one block: equal rates pass the block through,
\* otherwise the block is interpolated and the cursor is carried over
Resample(blk, frac, prev, rin, rout) ==
    IF rin = rout
    THEN [out  |-> [i \in 1..Len(blk) |-> blk[i] * rout],
          frac |-> frac,
          prev |-> blk[Len(blk)]]
    ELSE LET out == Interpolate(blk, frac, prev, rin, rout)
         IN  [out  |-> out,
              frac |-> frac + Len(out) * rin - Len(blk) * rout,
              prev |-> blk[Len(blk)]]

\* open(): rates negotiated, resampler state reinitialised
RsOpen ==
    /\ rs_rin = 0
    /\ rs_rin' \in Rates /\ rs_rout' \in Rates
    /\ resamp_in_frac_' = 0 /\ resamp_in_prev_' = 0
    /\ rsIn' = <<>> /\ rsOut' = <<>> /\ rsBlocks' = 0
    /\ UNCHANGED rsRest

\* close()
RsClose ==
    /\ rs_rin # 0
    /\ rs_rin' = 0 /\ rs_rout' = 0
    /\ UNCHANGED <<resamp_in_frac_, resamp_in_prev_, rsIn, rsOut, rsBlocks>>
    /\ UNCHANGED rsRest

\* one iteration: a captured block is resampled to the codec rate
RsBlock ==
    /\ rs_rin # 0
    /\ \E blk \in Blocks :
          /\ Len(rsIn) + Len(blk) <= MaxStream
          /\ LET r == Resample(blk, resamp_in_frac_, resamp_in_prev_,
                               rs_rin, rs_rout)
             IN  /\ rsOut' = rsOut \o r.out
                 /\ resamp_in_frac_' = r.frac
                 /\ resamp_in_prev_' = r.prev
          /\ rsIn' = rsIn \o blk
    /\ rsBlocks' = rsBlocks + 1
    /\ UNCHANGED <<rs_rin, rs_rout>>
    /\ UNCHANGED rsRest

ResamplerInit == Init /\ variant = "alsa"

ResamplerNext == RsOpen \/ RsClose \/ RsBlock

ResamplerSpec == ResamplerInit /\ [][ResamplerNext]_rsVars

\* ---- level meter: meter_widget_update -----------------------------------
\* variant of Decay: a fall factor of one
DecayUnity(p) == (p * 40) \div 40

\* peak *= PEAK_DECAY;   0.925 = 37 / 40, the product rounded down
Decay(p) == (p * 37) \div 40

\* variant of UpdatePeak: a level equal to the held peak does not re-arm
UpdatePeakStrict(level, peak, timer) ==
    IF level > peak
    THEN [peak |-> level, timer |-> PEAK_HOLD]
    ELSE LET p == IF timer > 0 THEN peak ELSE Decay(peak)
             t == IF timer > 0 THEN timer - 1 ELSE timer
         IN  [peak |-> IF p < PEAK_FLOOR THEN 0 ELSE p, timer |-> t]

\* the peak-hold / fall logic applied to one channel
UpdatePeak(level, peak, timer) ==
    IF level >= peak
    THEN [peak |-> level, timer |-> PEAK_HOLD]
    ELSE LET p == IF timer > 0 THEN peak ELSE Decay(peak)
             t == IF timer > 0 THEN timer - 1 ELSE timer
         IN  [peak |-> IF p < PEAK_FLOOR THEN 0 ELSE p, timer |-> t]

\* meter_widget_update(widget, lv)
MeterUpdateLevel(lv) ==
    /\ LET u == UpdatePeak(lv, m_peak, m_timer)
       IN  /\ m_level' = lv
           /\ m_peak' = u.peak /\ m_timer' = u.timer
           /\ IF lv >= m_peak
              THEN heldP' = lv /\ below' = 0
              ELSE /\ heldP' = heldP
                   /\ below' = IF below < 47 THEN below + 1 ELSE below
    /\ UNCHANGED meterRest

\* meter_widget_update called with any level
MeterUpdate ==
    \E lv \in MeterLevels : MeterUpdateLevel(lv)

MeterInit == Init /\ variant = "alsa"

MeterNext == MeterUpdate

MeterSpec == MeterInit /\ [][MeterNext]_meterVars

\* the caller's timer keeps delivering updates: whenever an update with
\* level 0 would change the meter, one is eventually made
MeterFairSpec == MeterSpec /\ WF_meterVars(MeterUpdateLevel(0))

\* ---- stereo level meter: meter_widget_update ----------------------------
\* variant of MeterWidgetUpdate: the second update_peak call is handed the
\* left timer
MeterWidgetUpdateCrossed(s, l, r) ==
    LET ul == UpdatePeak(l, s.peak_left, s.timer_left)
        ur == UpdatePeak(r, s.peak_right, ul.timer)
    IN  [level_left |-> l, level_right |-> r,
         peak_left |-> ul.peak, peak_right |-> ur.peak,
         timer_left |-> ur.timer, timer_right |-> s.timer_right]

\* meter_widget_update(widget, l, r) applied to the MeterState s
MeterWidgetUpdate(s, l, r) ==
    LET ul == UpdatePeak(l, s.peak_left, s.timer_left)
        ur == UpdatePeak(r, s.peak_right, s.timer_right)
    IN  [level_left |-> l, level_right |-> r,
         peak_left |-> ul.peak, peak_right |-> ur.peak,
         timer_left |-> ul.timer, timer_right |-> ur.timer]

\* one call on each of three meters: st gets (l, r), stR the same left level
\* and another right level, stL the same right level and another left level
StereoUpdate ==
    /\ \E l \in AppLevels, r \in AppLevels, x \in AppLevels :
          /\ st' = MeterWidgetUpdate(st, l, r)
          /\ stR' = MeterWidgetUpdate(stR, l, x)
          /\ stL' = MeterWidgetUpdate(stL, x, r)
    /\ UNCHANGED <<g_audio, a_alive, audio, g_timer, timer_src, ndev, sel,
                   hpc, window, stopped, lastH, staleRead>>
    /\ UNCHANGED appRest

StereoInit == Init /\ variant = "alsa"

StereoNext == StereoUpdate

StereoSpec == StereoInit /\ [][StereoNext]_appVars

\* ---- the application: GTK handlers around one AudioInput ----------------
\* AudioInput::stop() as one step: the worker has been joined on return
AStop(a) ==
    IF ~a.running THEN a
    ELSE [a EXCEPT !.running = FALSE, !.thread = "none",
                   !.left = 0, !.right = 0]

\* AudioInput::close()
AClose(a) ==
    [AStop(a) EXCEPT !.pcm = FALSE, !.left = 0, !.right = 0]

\* AudioInput::open(hw_id): close() first, then the device opens or not
AOpen(a, ok) ==
    [AClose(a) EXCEPT !.pcm = ok]

\* AudioInput::start()
AStart(a) ==
    IF ~a.pcm \/ a.running THEN a
    ELSE [a EXCEPT !.running = TRUE, !.thread = "loop"]

\* g_audio && g_audio->is_running()
Capturing == g_audio = "ptr" /\ audio.running

\* the main loop dispatches a handler
Dispatch == hpc = "idle"

\* variant of StopCaptured: stop_capture without the meter_widget_update call
StopCapturedNoPush ==
    [audio |-> IF g_audio = "ptr" THEN AClose(AStop(audio)) ELSE audio,
     timer_src |-> IF g_timer # 0 THEN FALSE ELSE timer_src,
     st |-> st]

\* what stop_capture() leaves behind (g_timer is 0 after it)
StopCaptured ==
    [audio |-> IF g_audio = "ptr" THEN AClose(AStop(audio)) ELSE audio,
     timer_src |-> IF g_timer # 0 THEN FALSE ELSE timer_src,
     st |-> MeterWidgetUpdate(st, 0, 0)]

\* stop_capture()
StopCapture ==
    /\ audio' = StopCaptured.audio
    /\ g_timer' = 0 /\ timer_src' = StopCaptured.timer_src
    /\ st' = StopCaptured.st
    /\ stopped' = TRUE /\ lastH' = "stop_capture"
    /\ UNCHANGED <<g_audio, a_alive>>

\* start_capture(idx); ok: whether the device opens
StartCapture(idx, ok) ==
    IF idx < 0 \/ idx >= ndev
    THEN /\ lastH' = "start_range"
         /\ UNCHANGED <<st, g_audio, a_alive, audio, g_timer, timer_src, stopped>>
    ELSE LET a == IF g_audio = "ptr" THEN StopCaptured.audio ELSE AudioNew
         IN  /\ st' = StopCaptured.st
             /\ g_audio' = "ptr" /\ a_alive' = TRUE
             /\ IF ok
                THEN /\ audio' = AStart(AOpen(a, TRUE))
                     /\ g_timer' = 1 /\ timer_src' = TRUE
                     /\ stopped' = FALSE /\ lastH' = "start_ok"
                ELSE /\ audio' = AOpen(a, FALSE)
                     /\ g_timer' = 0 /\ timer_src' = StopCaptured.timer_src
                     /\ stopped' = TRUE /\ lastH' = "start_fail"

\* on_meter_tick, called by the main loop while its source is installed
OnMeterTick ==
    /\ Dispatch /\ timer_src
    /\ IF g_audio = "ptr" /\ ~a_alive
       THEN \* the read goes through a dangling pointer
            /\ staleRead' = TRUE /\ lastH' = "tick_fwd"
            /\ \E l \in AppLevels, r \in AppLevels :
                  st' \in {st, MeterWidgetUpdate(st, l, r)}
       ELSE /\ staleRead' = staleRead
            /\ IF Capturing
               THEN /\ st' = MeterWidgetUpdate(st, audio.left, audio.right)
                    /\ lastH' = "tick_fwd"
               ELSE /\ st' = st /\ lastH' = "tick_skip"
    /\ UNCHANGED <<stR, stL, g_audio, a_alive, audio, g_timer, timer_src,
                   ndev, sel, hpc, window, stopped>>
    /\ UNCHANGED appRest

\* on_combo_changed: the user picks a row of the device list
OnComboChanged ==
    /\ Dispatch /\ window = "shown"
    /\ \E idx \in 0..(ndev - 1), ok \in BOOLEAN :
          /\ sel' = idx
          /\ StartCapture(idx, ok)
    /\ UNCHANGED <<stR, stL, ndev, hpc, window, staleRead>>
    /\ UNCHANGED appRest

\* on_start_stop: the toggle button
OnStartStop ==
    /\ Dispatch /\ window = "shown"
    /\ IF Capturing
       THEN StopCapture
       ELSE \E ok \in BOOLEAN : StartCapture(sel, ok)
    /\ UNCHANGED <<stR, stL, ndev, sel, hpc, window, staleRead>>
    /\ UNCHANGED appRest

\* on_refresh: stop a running capture, enumerate again, deselect
OnRefresh ==
    /\ Dispatch /\ window = "shown"
    /\ IF Capturing
       THEN StopCapture
       ELSE /\ lastH' = "refresh"
            /\ UNCHANGED <<st, g_audio, a_alive, audio, g_timer, timer_src, stopped>>
    /\ ndev' \in 0..MaxDevices
    /\ sel' = -1
    /\ UNCHANGED <<stR, stL, hpc, window, staleRead>>
    /\ UNCHANGED appRest

\* variant of DestroyTimer: the id is cleared but the source is not removed
DestroyTimerKeepsSource ==
    /\ Dispatch /\ window = "shown"
    /\ g_timer' = 0
    /\ hpc' = "destroy_audio" /\ lastH' = "destroy_timer"
    /\ UNCHANGED <<st, stR, stL, g_audio, a_alive, audio, timer_src, ndev, sel,
                   window, stopped, staleRead>>
    /\ UNCHANGED appRest

\* on_window_destroy, first statement: remove the meter timer
DestroyTimer ==
    /\ Dispatch /\ window = "shown"
    /\ timer_src' = IF g_timer # 0 THEN FALSE ELSE timer_src
    /\ g_timer' = 0
    /\ hpc' = "destroy_audio" /\ lastH' = "destroy_timer"
    /\ UNCHANGED <<st, stR, stL, g_audio, a_alive, audio, ndev, sel,
                   window, stopped, staleRead>>
    /\ UNCHANGED appRest

\* on_window_destroy, second statement: stop, close and delete the audio
\* object (the destructor stops and closes once more), clear the pointer
DestroyAudio ==
    /\ hpc = "destroy_audio"
    /\ IF g_audio = "ptr"
       THEN /\ audio' = AClose(AStop(AClose(AStop(audio))))
            /\ a_alive' = FALSE /\ g_audio' = "nullptr"
       ELSE UNCHANGED <<audio, a_alive, g_audio>>
    /\ hpc' = "idle" /\ window' = "destroyed" /\ lastH' = "destroy_audio"
    /\ UNCHANGED <<st, stR, stL, g_timer, timer_src, ndev, sel, stopped, staleRead>>
    /\ UNCHANGED appRest

\* capture_loop publishes the levels of one period
AppWorkerPublish ==
    /\ audio.thread = "loop"
    /\ \E l \in AppLevels, r \in AppLevels :
          audio' = [audio EXCEPT !.left = l, !.right = r]
    /\ lastH' = "worker"
    /\ UNCHANGED <<st, stR, stL, g_audio, a_alive, g_timer, timer_src, ndev, sel,
                   hpc, window, stopped, staleRead>>
    /\ UNCHANGED appRest

\* capture_loop leaves on a read error it cannot recover from; running_
\* is not written
AppWorkerFail ==
    /\ audio.thread = "loop"
    /\ audio' = [audio EXCEPT !.thread = "exited"]
    /\ lastH' = "worker"
    /\ UNCHANGED <<st, stR, stL, g_audio, a_alive, g_timer, timer_src, ndev, sel,
                   hpc, window, stopped, staleRead>>
    /\ UNCHANGED appRest

AppInit == Init /\ variant = "alsa"

AppNext ==
    \/ OnMeterTick \/ OnComboChanged \/ OnStartStop \/ OnRefresh
    \/ DestroyTimer \/ DestroyAudio
    \/ AppWorkerPublish \/ AppWorkerFail

AppSpec == AppInit /\ [][AppNext]_appVars

\* the timeout source fires while it is installed, the worker thread is
\* scheduled and a handler that was entered runs to its end; nothing
\* obliges the user to act
AppFairSpec ==
    /\ AppSpec
    /\ WF_appVars(OnMeterTick) /\ WF_appVars(AppWorkerPublish)
    /\ WF_appVars(DestroyAudio)

\* ---- properties ---------------------------------------------------------
StopPcs == {"stop_check", "stop_clear", "stop_drop", "stop_join",
            "stop_lvl_l", "stop_lvl_r"}
OpenPcs == {"open_dev", "open_mono", "open_pre", "open_chan", "open_post",
            "open_fail"}

\* the part of the observable state the worker never writes
Ctl(o) == <<o.running, o.pcm, o.channels, o.joinable>>

\* C1: when stop() has returned from a call made on a running instance, the
\* worker thread has exited and has been joined, so no worker step (loop
\* iteration, level store) can follow the return.
C1_StopJoinsWorker ==
    (opc = "idle" /\ lastRet = "stop" /\ snap.running)
        => (wpc = "none" /\ ~thread_ /\ ~running_)

\* stop() has returned after being called on a running instance whose worker
\* had published a level
C1_Witness ==
    /\ opc = "idle" /\ lastRet = "stop"
    /\ snap.running /\ snap.joinable /\ snap.left # 0

\* C2: ALSA variant, both threads scheduled, no further capture data owed:
\* a stop() that found the instance running always leaves stop() again
\* (flag cleared, PCM dropped, worker joined), wherever the worker was.
C2_AlsaStopTerminates ==
    (variant = "alsa" /\ opc = "stop_clear") ~> (opc \notin StopPcs)

\* the owner waits in join while the worker sits in the read of a dropped PCM
C2_Witness ==
    /\ variant = "alsa" /\ opc = "stop_join"
    /\ wpc = "read" /\ pcmState = "setup" /\ ~running_

\* C3: PulseAudio / AudioStream variants, both threads scheduled, no further
\* capture data owed: a stop() that found the instance running always leaves
\* stop() again (the blocked read returns and the join completes).
C3_StopUnblocksRead ==
    (variant \in {"pulse", "stream"} /\ opc = "stop_clear") ~> (opc \notin StopPcs)

\* C4: stop() on a not-running instance, close() on an unopened or closed
\* instance, and the second of two stop() or two close() calls in a row,
\* return without error and leave the observable state as it was at the call.
C4_StopCloseIdempotent ==
    /\ (op \in {"stop", "close"} \/ lastRet \in {"stop", "close"})
           => fault = "none"
    /\ (opc = "idle" /\ lastRet = "stop" /\ (~snap.running \/ prevRet = "stop"))
           => Obs = snap
    /\ (opc = "idle" /\ lastRet = "close" /\ (snap.pcm = 0 \/ prevRet = "close"))
           => Obs = snap

\* close() has returned for the second time in a row
C4_Witness ==
    /\ opc = "idle" /\ lastRet = "close" /\ prevRet = "close"

\* C5: when the worker has left the loop on an unrecoverable capture error,
\* the running status is false.
C5_ErrorExitClearsRunning ==
    (wpc = "done" /\ exitWhy = "error") => ~running_

\* C6: after open() has returned false the instance is unopened (handle null,
\* channel count 0, not running, no worker), and a start() that follows
\* changes nothing and starts no thread.
C6_FailedOpenLeavesUnopened ==
    /\ (opc = "idle" /\ lastRet = "open_fail")
           => (pcm_ = 0 /\ channels_ = 0 /\ ~running_ /\ ~thread_ /\ wpc = "none")
    /\ (opc = "idle" /\ lastRet = "start" /\ prevRet = "open_fail")
           => (Obs = snap /\ ~running_ /\ ~thread_ /\ wpc = "none")

\* start() has returned after an open() that failed
C6_Witness ==
    /\ opc = "idle" /\ lastRet = "start" /\ prevRet = "open_fail"

\* C7: open() closes the previous state first: while open() acquires and
\* configures the new device no worker exists and the flag is clear, the old
\* handle has been released before the new one is requested, and the audio
\* system never holds two handles for the instance.
C7_ReopenClosesFirst ==
    /\ Cardinality(held) <= 1
    /\ opc \in OpenPcs => (wpc = "none" /\ ~thread_ /\ ~running_)
    /\ opc = "open_dev" => (pcm_ = 0 /\ held = {})

\* open() was called on an opened, running instance and is about to open the
\* new device
C7_Witness ==
    /\ opc = "open_dev" /\ snap.pcm # 0 /\ snap.running /\ snap.joinable

\* C8: one worker per instance: the thread member is joinable exactly while a
\* worker exists, it is never assigned while joinable (no std::terminate),
\* and start() on a running or an unopened instance changes nothing.
C8_OneWorker ==
    /\ fault # "terminate"
    /\ thread_ <=> (wpc # "none")
    /\ opc = "start_spawn" => ~thread_
    /\ (opc = "idle" /\ lastRet = "start" /\ (snap.running \/ snap.pcm = 0))
           => Ctl(Obs) = Ctl(snap)
    /\ (opc = "idle" /\ lastRet = "start" /\ snap.pcm = 0) => wpc = "none"

\* start() has returned from a call on a running instance whose worker lives
C8_Witness ==
    /\ opc = "idle" /\ lastRet = "start" /\ snap.running
    /\ wpc \in {"top", "read", "pub_l", "pub_r"}

\* what the worker may do next at each position of the error branch
C9_ErrorStep ==
    /\ (wpc = "err_chk" /\ wpc' # wpc /\ ~running_) => wpc' = "done"
    /\ (wpc = "err_chk" /\ wpc' # wpc /\ running_)
           => wpc' = (IF variant = "alsa" THEN "recover" ELSE "top")
    /\ (wpc = "err" /\ wpc' # wpc)
           => wpc' = (IF errKind = "EINTR" THEN "top" ELSE "err_chk")
    /\ (wpc = "recover" /\ wpc' # wpc /\ exitWhy' # "error") => wpc' = "top"

C10_WorkerStep ==
    /\ (wpc' = "read" /\ wpc # "read") => (wpc = "top" /\ running_)
    /\ (wpc' = "done" /\ wpc # "done") => wpc \in {"top", "err_chk", "recover"}

\* C10: the worker enters a read only from the loop top with the flag seen
\* set, leaves the loop only at its own tests, and after the flag has been
\* cleared completes at most one more read and one more level-pair
\* publication.
C10_CooperativeCancel ==
    /\ [](postReads <= 1 /\ postPubs <= 1)
    /\ [][C10_WorkerStep]_vars

\* the worker has left the loop after one read and one publication that
\* followed the clearing of the flag
C10_Witness ==
    /\ wpc = "done" /\ exitWhy = "flag" /\ postReads = 1 /\ postPubs = 1

\* positions at which the worker thread is executing capture_loop
WorkerLive == {"init", "top", "read", "err", "err_chk", "recover",
               "pub_l", "pub_r"}

\* the instance is in a failure state: the last open() returned false, or
\* the worker has left the loop on an unrecoverable capture error
C11_Failed ==
    \/ lastRet = "open_fail"
    \/ (wpc = "done" /\ exitWhy = "error")

\* C11: an open() called on an instance in a failure state (failed open(), or
\* worker gone on an unrecoverable capture error) always gets through its
\* leading close(): it reaches the device request with handle released, flag
\* clear and no worker left.  A start() that follows a successful open()
\* finds the instance startable and returns with the flag set and a new
\* worker launched.
C11_ReopenAfterFailure ==
    /\ (op = "open" /\ opc = "stop_check" /\ C11_Failed)
           ~> (op = "open" /\ opc = "open_dev" /\ pcm_ = 0 /\ held = {}
                 /\ ~running_ /\ ~thread_ /\ wpc = "none")
    /\ []((opc = "start_check" /\ lastRet = "open_ok")
             => (pcm_ # 0 /\ ~running_ /\ ~thread_ /\ wpc = "none"))
    /\ []((opc = "idle" /\ lastRet = "start" /\ prevRet = "open_ok")
             => (running_ /\ thread_ /\ wpc # "none"))

\* after an open() that returned false, the next open() has succeeded and the
\* start() that followed it is about to launch the new worker
C11_Witness ==
    /\ op = "start" /\ opc = "start_spawn"
    /\ lastRet = "open_ok" /\ prevRet = "open_fail"
    /\ pcm_ # 0 /\ running_ /\ wpc = "none"

\* C12: in every state in which the worker thread is executing, the device
\* handle is non-null and open and the channel count is non-zero; no step
\* taken while the worker executes changes the handle, the set of open
\* handles or the channel count.
C12_WorkerSeesOpenDevice ==
    /\ [](wpc \in WorkerLive
             => (pcm_ # 0 /\ pcm_ \in held /\ channels_ \in {1, 2}))
    /\ [][(wpc \in WorkerLive) => (UNCHANGED <<pcm_, held, channels_>>)]_vars

\* close() was called on a running instance and is about to release the
\* device, the worker having been joined
C12_Witness ==
    /\ op = "close" /\ opc = "close_release"
    /\ snap.running /\ snap.joinable /\ snap.pcm # 0
    /\ wpc = "none" /\ pcm_ # 0

\* C13: the two levels are stored in two separate steps, so the pair a
\* reader loads can mix two blocks.  In mono capture, where each block
\* yields equal left and right levels, the stored pair is unequal exactly
\* when the worker is between the two stores of an iteration: left already
\* holds this block's level, right still holds the earlier one.
C13_MixedSnapshot ==
    /\ (wpc = "pub_r") => level_left_ = wl
    /\ (channels_ = 1 /\ wpc = "pub_r") => wr = wl
    /\ (channels_ = 1 /\ wpc \in WorkerLive /\ wpc # "pub_r")
           => level_left_ = level_right_

\* mono capture, the owner idle in the main loop (free to poll), the worker
\* between its two stores: left and right differ
C13_Witness ==
    /\ opc = "idle" /\ lastRet = "start"
    /\ channels_ = 1 /\ wpc = "pub_r"
    /\ level_left_ = wl /\ level_left_ # level_right_

\* C14: warmup gating from a cold start: before any loss of synchronisation,
\* the vocoder has been invoked only if at least 5 feature frames were
\* received since open(), and then the frame count stands at 5, the flag is
\* set and all 5 slots of the window it was given hold received frames.
C14_WarmupGating ==
    (epoch = 1 /\ vocIn # <<>>)
        => /\ fresh >= 5
           /\ warmup_count_ = 5 /\ fargan_ready_
           /\ \A i \in 1..5 : vocIn[i] = 1

\* the fifth frame after a cold start has just primed the vocoder
C14_Witness ==
    /\ epoch = 1 /\ fresh = 5 /\ vocIn # <<>> /\ fires = 1
    /\ dec_running_ /\ fargan_ready_ /\ warmup_count_ = 5

\* a loss of synchronisation: the receiver step that clears the sync status
C15_LossStep ==
    (synced_ /\ ~synced_' /\ dec_running_')
        => /\ warmup_count_' = 0
           /\ vocIn' = <<>>
           /\ UNCHANGED <<dec_open, dec_running_>>

\* C15: a not-synchronised receiver result sets the frame count to zero and
\* the sync status to false and leaves the loop running; afterwards the
\* vocoder is invoked again only when 5 frames have been received since the
\* loss, and the window it is given holds frames received after the loss only.
C15_LossOfSyncResetsWarmup ==
    /\ [][C15_LossStep]_decVars
    /\ []((epoch > 1 /\ vocIn # <<>>)
             => /\ fresh >= 5
                /\ \A i \in 1..5 : vocIn[i] = epoch)

\* after a synchronised run with the vocoder invoked, synchronisation was
\* lost and five fresh frames have primed the vocoder again
C15_Witness ==
    /\ epoch = 2 /\ fires = 2 /\ fresh = 5 /\ vocIn # <<>>
    /\ dec_running_ /\ synced_ /\ fargan_ready_

C16_RevertStep ==
    (fargan_ready_ /\ ~fargan_ready_')
        => \/ (dec_running_ /\ dec_running_' /\ ~synced_' /\ epoch' = epoch + 1)
           \/ (~dec_open /\ dec_open')

C17_RealPartDelay ==
    /\ nPairs = hn
    /\ hn >= 1 =>
          out_re = (IF hn - 1 < 63 THEN 0 ELSE Sample(hsig, hn - 1 - 63))

\* an impulse fed as sample 70 comes out as the real part of pair 133, after
\* the write cursors have wrapped around the 127-entry rings
C17_Witness ==
    /\ hsig.kind = "impulse" /\ hsig.at = 70
    /\ hn = 134 /\ out_re = hsig.amp /\ delay_pos_ = 7

\* C18: after every input sample the history write cursor and the delay
\* write cursor are equal, each lies in 0..126, and each has advanced by
\* exactly one modulo 127 from its value before the sample.
C18_SingleWriteCursor ==
    /\ [](hilbert_pos_ = delay_pos_ /\ hilbert_pos_ \in 0..126
             /\ hilbert_pos_ = hn % 127)
    /\ [][hn' = hn + 1 =>
             /\ hilbert_pos_' = (hilbert_pos_ + 1) % 127
             /\ delay_pos_' = (delay_pos_ + 1) % 127]_hilVars

\* both cursors are back at 0 after 127 samples
C18_Witness ==
    /\ hn = 127 /\ hilbert_pos_ = 0 /\ delay_pos_ = 0
    /\ hsig.kind = "ramp" /\ hilbert_hist_[126] = 127 * hsig.amp

C20_PeakHoldAsStated ==
    /\ (below \in 1..45) => m_peak = heldP
    /\ (below = 46) => m_peak = Decay(heldP)

\* C20 amended: for a peak P of at least 1e-7, the held peak stays P during
\* the next 45 updates whose level is below it, and the 46th such update
\* leaves 0.925 * P, or 0 if that product is below 1e-7; any update whose
\* level is >= the held peak (equality included) makes the level the new
\* peak and re-arms the 45-update hold.
C20_PeakHold ==
    /\ []((heldP >= PEAK_FLOOR /\ below <= 45)
             => (m_peak = heldP /\ m_timer = 45 - below))
    /\ []((heldP >= PEAK_FLOOR /\ below = 46)
             => m_peak = (IF Decay(heldP) < PEAK_FLOOR THEN 0 ELSE Decay(heldP)))
    /\ [][(m_level' >= m_peak) => (m_peak' = m_level' /\ m_timer' = 45)]_meterVars
    /\ [][(m_level' < m_peak /\ m_timer > 0) => m_timer' = m_timer - 1]_meterVars

\* the 46th update below a peak of 6 has just started the fall
C20_Witness ==
    /\ heldP = 6 /\ below = 46 /\ m_timer = 0 /\ m_peak = 5 /\ m_level < 5

\* C21: stop() leaves the opened state untouched: no step of a stop() call
\* changes the device handle, the set of open handles, the channel count or
\* the state the opened device is in.
C21_StopLeavesOpenedState ==
    [][(op = "stop") => (UNCHANGED <<pcm_, held, channels_, pcmState>>)]_vars

\* C22: at every return from open(), close(), start() or stop() the channel
\* count is 0 exactly when no device handle is open and is 1 or 2 when one
\* is open; the worker never starts with a channel count of 0.
C22_ChannelsMatchHandle ==
    /\ opc = "idle" => /\ (channels_ = 0 <=> pcm_ = 0)
                       /\ (pcm_ # 0 => channels_ \in {1, 2})
    /\ wpc = "init" => channels_ \in {1, 2}

\* close() has returned on an instance that was open with two channels
C22_Witness ==
    /\ opc = "idle" /\ lastRet = "close" /\ snap.pcm # 0 /\ snap.channels = 2
    /\ pcm_ = 0 /\ channels_ = 0

\* C23: after every meter_widget_update call the held peak is greater than
\* or equal to the current level.
C23_PeakAtLeastLevel ==
    m_peak >= m_level

\* C24: when meter_widget_update keeps being called with level 0, a held
\* peak whose hold has expired strictly decreases on every such update, a
\* fall never leaves a peak between 0 and 1e-7, the peak reaches 0 and stays
\* 0 from then on.
C24_PeakFallsToZero ==
    /\ [][(m_level' = 0 /\ m_timer = 0 /\ m_peak > 0) => m_peak' < m_peak]_meterVars
    /\ [][(m_level' < m_peak) => (m_peak' = 0 \/ m_peak' >= PEAK_FLOOR)]_meterVars
    /\ [][(m_level' = 0 /\ m_peak = 0) => m_peak' = 0]_meterVars
    /\ (<>[](m_level = 0)) => (<>[](m_peak = 0))

\* a peak above the floor was held, fell over several zero-level updates
\* and has just been snapped to 0
C24_Witness ==
    /\ heldP > PEAK_FLOOR /\ below = 47
    /\ m_level = 0 /\ m_peak = 0 /\ m_timer = 0

\* the state of one channel of a stereo MeterState
LeftOf(s) == <<s.level_left, s.peak_left, s.timer_left>>
RightOf(s) == <<s.level_right, s.peak_right, s.timer_right>>

\* C25: two runs of the stereo meter that were given the same left levels
\* and any right levels end with the same left level, peak and timer, and
\* two runs given the same right levels end with the same right state.
C25_ChannelsIndependent ==
    /\ LeftOf(st) = LeftOf(stR)
    /\ RightOf(st) = RightOf(stL)

\* the runs really differ in the other channel while one holds a peak whose
\* hold is running down
C25_Witness ==
    /\ RightOf(st) # RightOf(stR) /\ LeftOf(st) # LeftOf(stL)
    /\ st.peak_left > 0 /\ st.timer_left < PEAK_HOLD - 1
    /\ stR.peak_right > 0 /\ stR.timer_right = PEAK_HOLD
    /\ st.peak_right = 0

\* C26: a tick forwards levels only while the audio object exists and is
\* running; from stop_capture until a start_capture succeeds the meter's
\* level is 0 on both channels.
C26_MeterZeroWhileStopped ==
    /\ [][(lastH' = "tick_fwd") => (g_audio = "ptr" /\ a_alive /\ audio.running)]_appVars
    /\ [](stopped => (st.level_left = 0 /\ st.level_right = 0))
    /\ [][(stopped /\ stopped') => (lastH' # "tick_fwd")]_appVars

\* stop_capture has just pushed 0 over a level that a tick had forwarded
C26_Witness ==
    /\ stopped /\ lastH = "stop_capture"
    /\ st.level_left = 0 /\ st.peak_left > 0 /\ st.timer_left = PEAK_HOLD - 1

\* C27: once stop_capture has run while the meter holds a non-zero peak,
\* the held peak eventually is 0 on both channels (or capture has been
\* started again, or the window has been closed).
C27_PeakMarkerFalls ==
    (stopped /\ (st.peak_left > 0 \/ st.peak_right > 0))
        ~> \/ st.peak_left = 0 /\ st.peak_right = 0
           \/ ~stopped
           \/ window = "destroyed"

\* C28: on_window_destroy has removed the timer source and cleared its id
\* before it touches the audio object; once the window is destroyed the
\* timer id is 0, no source is installed, g_audio is null and the worker
\* is joined; no tick ever reads through a pointer to a deleted object.
C28_DestroyOrder ==
    /\ hpc = "destroy_audio" => (g_timer = 0 /\ ~timer_src)
    /\ window = "destroyed" =>
          /\ g_timer = 0 /\ ~timer_src
          /\ g_audio = "nullptr" /\ ~a_alive
          /\ audio.thread = "none" /\ ~audio.running /\ ~audio.pcm
    /\ ~staleRead

\* the window was destroyed while capture was running: the meter still
\* shows the last forwarded level and the object is gone
C28_Witness ==
    /\ window = "destroyed" /\ lastH = "destroy_audio"
    /\ st.level_left > 0 /\ ~stopped
    /\ g_audio = "nullptr" /\ ~a_alive

====
